---- MODULE Spec2Model ----
(***************************************************************************)
(* Voice-recognition login system (DL/): the SQLite-backed VoiceDatabase,  *)
(* the cosine-similarity engine, and the login / registration handlers of  *)
(* the CLI (cli_app.py), the desktop GUI (app.py) and the two web servers  *)
(* (web_app.py, web_app_fixed.py).                                         *)
(*                                                                         *)
(* Numeric modelling.  A feature encoding is a small integer matrix (a     *)
(* sequence of rows).  A similarity score is the real number               *)
(* num / sqrt(den2), kept exactly as the pair [num, den2]; all comparisons *)
(* between scores are done exactly on that pair.  Floating-point rounding  *)
(* is not modelled.                                                        *)
(***************************************************************************)
EXTENDS Integers, Sequences, FiniteSets, TLC

VARIABLES students, voice_embeddings, login_attempts, last,
          model, model_file, train_btn, threads, temp_audio

\* the database tables and what the last operation returned
db_vars == <<students, voice_embeddings, login_attempts, last>>

\* self.model of the CLI and of the desktop app, the saved model file, the
\* Train button, the running threads, the files of the temp_audio folder
app_vars == <<model, model_file, train_btn, threads, temp_audio>>

vars == <<db_vars, app_vars>>

----------------------------------------------------------------------------
(* Bounds *)

\* at most this many rows in the login_attempts table
MaxLog == 1

\* at most this many rows in the voice_embeddings table of direct calls of
\* the database
MaxStored == 3

\* at most this many threads (training threads of the desktop app, request
\* handlers of the web server) at a time
MaxThreads == 2

----------------------------------------------------------------------------
(* Scores: exact arithmetic on num / sqrt(den2), den2 > 0 *)

Sq(x) == x * x

Score(n, d2) == [num |-> n, den2 |-> d2]

\* the float literal 0.0
Zero == Score(0, 1)

\* the float 1.0
One == Score(1, 1)

\* a <= b as real numbers
ScoreLeq(a, b) ==
    IF a.num <= 0 /\ b.num >= 0 THEN TRUE
    ELSE IF a.num >= 0 /\ b.num <= 0 THEN a.num = 0 /\ b.num = 0
    ELSE IF a.num > 0 THEN Sq(a.num) * b.den2 <= Sq(b.num) * a.den2
    ELSE Sq(a.num) * b.den2 >= Sq(b.num) * a.den2

ScoreGeq(a, b) == ScoreLeq(b, a)

ScoreLt(a, b) == ~ScoreLeq(b, a)

ScoreGt(a, b) == ~ScoreLeq(a, b)

ScoreEq(a, b) == ScoreLeq(a, b) /\ ScoreLeq(b, a)

\* similarity_threshold=0.8, the default of verify_student_voice
DefaultThreshold == Score(4, 25)

\* confidence_threshold = 0.75 of the CLI, the desktop app and web_app_fixed
ConfidenceThreshold == Score(3, 16)

\* the 0.5 of the "possible match" branch
PossibleThreshold == Score(1, 4)

\* the 0.65 of web_app.api_voice_login
WebConfidenceThreshold == Score(13, 400)

----------------------------------------------------------------------------
(* Encodings: numpy arrays, as sequences of rows *)

\* Python None (also: "no encoding could be extracted")
None == <<>>

\* ndarray.flatten(): the rows one after the other
RECURSIVE Flatten(_)
Flatten(m) == IF m = <<>> THEN <<>> ELSE Head(m) \o Flatten(Tail(m))

RECURSIVE Dot(_, _)
Dot(u, v) == IF u = <<>> THEN 0 ELSE Head(u) * Head(v) + Dot(Tail(u), Tail(v))

\* np.linalg.norm(v) squared
NormSq(v) == Dot(v, v)

\* The body of calculate_cosine_similarity inside its try block: exc is TRUE
\* when a statement of the body raises (an argument without .shape, i.e.
\* None), val is the value the body returns otherwise.
CosineBody(embedding1, embedding2) ==
    IF embedding1 = None \/ embedding2 = None
    THEN [exc |-> TRUE, val |-> Zero]
    ELSE LET f1 == Flatten(embedding1)
             f2 == Flatten(embedding2)
         IN  IF Len(f1) # Len(f2) THEN [exc |-> FALSE, val |-> Zero]
             ELSE IF NormSq(f1) = 0 \/ NormSq(f2) = 0
                  THEN [exc |-> FALSE, val |-> Zero]
             ELSE IF Dot(f1, f2) = 0 THEN [exc |-> FALSE, val |-> Zero]
             ELSE [exc |-> FALSE,
                   val |-> Score(Dot(f1, f2), NormSq(f1) * NormSq(f2))]

\* calculate_cosine_similarity with its try / except taken away: what the
\* body raises reaches the caller
cosine_similarity_unguarded(embedding1, embedding2) ==
    LET r == CosineBody(embedding1, embedding2)
    IN  [raised |-> r.exc, val |-> r.val]

\* calculate_cosine_similarity: the body under "except Exception: return 0.0"
calculate_cosine_similarity(embedding1, embedding2) ==
    LET r == CosineBody(embedding1, embedding2)
    IN  IF r.exc THEN [raised |-> FALSE, val |-> Zero]
        ELSE [raised |-> FALSE, val |-> r.val]

----------------------------------------------------------------------------
(* Input domains *)

StudentIds == {"S1", "S2"}

\* the sentinel student_id of unmatched open-set attempts
UNKNOWN == "UNKNOWN"

\* "no student" (Python None where a student row is expected)
NoStudent == "NONE"

\* Log-mel spectrogram encodings (power_to_db with ref=np.max: every entry
\* is <= 0).  Flattened, SpecX.SpecY has cosine 0.8, SpecX.SpecZ 0.7071,
\* SpecY.SpecZ 0.1414; SpecSilent is the all-zero encoding.
SpecX == << <<-4, -3>>, <<0, 0>> >>
SpecY == << <<-1, 0>>, <<0, 0>> >>
SpecZ == << <<-1, -7>>, <<0, 0>> >>
SpecSilent == << <<0, 0>>, <<0, 0>> >>

\* an MFCC encoding: fewer columns than a spectrogram, entries of either sign
MfccM == << <<-3>>, <<2>> >>

\* an encoding of the manual STFT-magnitude fallback: entries >= 0
SimpleS == << <<1, 0>>, <<0, 0>> >>

\* What came of a recording or an upload.  recorded is FALSE when
\* record_audio raised; spec / mfcc are what preprocess_audio makes of the
\* clip with that feature_type and simple what the manual STFT fallback of
\* web_app makes of it, None where that extraction yields nothing.
Clip(sp, mf, si) == [recorded |-> TRUE, spec |-> sp, mfcc |-> mf, simple |-> si]

NoClip == Clip(None, None, None)

NotRecorded == [recorded |-> FALSE, spec |-> None, mfcc |-> None, simple |-> None]

ClipX == Clip(SpecX, MfccM, SimpleS)
ClipY == Clip(SpecY, MfccM, SimpleS)
ClipZ == Clip(SpecZ, MfccM, SimpleS)
ClipSilent == Clip(SpecSilent, MfccM, SimpleS)
ClipMfccOnly == Clip(None, MfccM, SimpleS)
ClipSimpleOnly == Clip(None, None, SimpleS)

\* the clips offered to the registration and to the login handlers
EnrollClips == {ClipX, ClipY, NoClip}

LoginClips == {ClipX, ClipZ, NoClip}

\* the clips enrolled before direct calls of the similarity engine
EngineClips == {ClipX, ClipSilent, ClipMfccOnly, ClipSimpleOnly, NoClip}

\* the noise np.random.normal may add to a stored variation: a matrix of the
\* shape of the features with every entry d
NoiseDeltas == {1}

\* the probes of direct calls
Encodings == {SpecX, SpecY, SpecZ, SpecSilent, MfccM, SimpleS}

\* thresholds a caller of verify_student_voice may pass
Thresholds == {DefaultThreshold, Zero}

----------------------------------------------------------------------------
(* preprocessing.py, as far as the handlers see it *)

\* preprocess_audio(path, feature_type): the encoding, or None
preprocess_audio(clip, feature_type) ==
    IF feature_type = "spectrogram" THEN clip.spec
    ELSE IF feature_type = "mfcc" THEN clip.mfcc
    ELSE None

----------------------------------------------------------------------------
(* preprocessing.py: the pipeline on the samples of a file.  Amplitudes are *)
(* integers in units of 0.01; a feature matrix is a sequence of rows.       *)

\* max_length=100 of AudioPreprocessor.__init__, in the model's scale: the
\* encodings of this model have two rows
max_length == 2

\* threshold=0.01 of remove_silence, in amplitude units
SilenceThreshold == 1

Abs(x) == IF x < 0 THEN 0 - x ELSE x

\* a row of n zeros
ZeroRow(n) == [j \in 1..n |-> 0]

\* pad_sequence keeping the last max_length rows of a long input:
\* features[-self.max_length:]
pad_sequence_keep_last(features) ==
    IF Len(features) > max_length
    THEN SubSeq(features, Len(features) - max_length + 1, Len(features))
    ELSE features \o [i \in 1..(max_length - Len(features)) |->
                         ZeroRow(Len(features[1]))]

\* AudioPreprocessor.pad_sequence: features[:max_length], or np.pad with
\* ((0, pad_width), (0, 0)) and constant zeros
pad_sequence(features) ==
    IF Len(features) > max_length
    THEN SubSeq(features, 1, max_length)
    ELSE features \o [i \in 1..(max_length - Len(features)) |->
                         ZeroRow(Len(features[1]))]

\* audio[mask] with mask = np.abs(audio) > threshold
Masked(audio, threshold) == SelectSeq(audio, LAMBDA a : Abs(a) > threshold)

\* remove_silence without its "else: return audio"
remove_silence_no_fallback(audio, threshold) == Masked(audio, threshold)

\* AudioPreprocessor.remove_silence
remove_silence(audio, threshold) ==
    IF Masked(audio, threshold) # <<>> THEN Masked(audio, threshold)
    ELSE audio

\* A file handed to load_audio.  bytes: whether the file has any; decodable:
\* whether librosa.load can read it; samples: what it reads; mfcc_raises /
\* spec_raises: whether librosa's extractor raises on this audio.
AudioFile(ex, by, dec, smp, mr, sr) ==
    [exists |-> ex, bytes |-> by, decodable |-> dec, samples |-> smp,
     mfcc_raises |-> mr, spec_raises |-> sr]

MissingFile == AudioFile(FALSE, FALSE, FALSE, <<>>, FALSE, FALSE)

ZeroByteFile == AudioFile(TRUE, FALSE, FALSE, <<>>, FALSE, FALSE)

UndecodableFile == AudioFile(TRUE, TRUE, FALSE, <<>>, FALSE, FALSE)

\* a readable file with a header and no samples
ZeroSampleFile == AudioFile(TRUE, TRUE, TRUE, <<>>, FALSE, FALSE)

\* AudioPreprocessor.load_audio: None for a missing or empty file; the
\* "except Exception: return None" catches what librosa.load raises and the
\* ValueError of audio.min() (line 40) on an array of zero samples
load_audio(file) ==
    IF ~file.exists THEN None
    ELSE IF ~file.bytes THEN None
    ELSE IF ~file.decodable THEN None
    ELSE IF file.samples = <<>> THEN None
    ELSE file.samples

\* librosa.feature.mfcc(...).T in the model's scale: one frame per sample,
\* one coefficient per frame
extract_mfcc(audio) == [i \in 1..Len(audio) |-> <<audio[i]>>]

\* extract_spectrogram: power_to_db(melspectrogram, ref=np.max).T in the
\* model's scale: one frame per sample, two mel bands, every entry <= 0
extract_spectrogram(audio) ==
    [i \in 1..Len(audio) |-> <<0 - Abs(audio[i]), 0>>]

FeatureTypes == {"mfcc", "spectrogram", "chroma"}

\* The body of preprocess_audio inside its try block: exc is TRUE when a
\* statement raises (extract_mfcc, which has no handler of its own, or the
\* ValueError of an unknown feature_type), val is what the body returns
\* otherwise.
PreprocessBody(file, feature_type) ==
    LET loaded == load_audio(file)
        audio == remove_silence(loaded, SilenceThreshold)
    IN  IF loaded = None THEN [exc |-> FALSE, val |-> None]
        ELSE IF audio = <<>> THEN [exc |-> FALSE, val |-> None]
        ELSE IF feature_type = "mfcc"
        THEN IF file.mfcc_raises THEN [exc |-> TRUE, val |-> None]
             ELSE [exc |-> FALSE, val |-> pad_sequence(extract_mfcc(audio))]
        ELSE IF feature_type = "spectrogram"
        THEN IF file.spec_raises THEN [exc |-> FALSE, val |-> None]
             ELSE [exc |-> FALSE,
                   val |-> pad_sequence(extract_spectrogram(audio))]
        ELSE [exc |-> TRUE, val |-> None]

\* preprocess_audio with its try / except taken away
preprocess_audio_unguarded(file, feature_type) ==
    LET r == PreprocessBody(file, feature_type)
    IN  [raised |-> r.exc, val |-> r.val]

\* AudioPreprocessor.preprocess_audio on a file: the body under
\* "except Exception: return None"
preprocess_audio_file(file, feature_type) ==
    LET r == PreprocessBody(file, feature_type)
    IN  IF r.exc THEN [raised |-> FALSE, val |-> None]
        ELSE [raised |-> FALSE, val |-> r.val]

----------------------------------------------------------------------------
(* database.py: the three tables as sequences of rows, in rowid order *)

StudentRow(sid) == [student_id |-> sid, is_active |-> TRUE]

EmbeddingRow(sid, e) == [student_id |-> sid, embedding |-> e]

AttemptRow(sid, ok, sc) ==
    [student_id |-> sid, success |-> ok, confidence_score |-> sc]

RECURSIVE Filter(_, _)
\* the rows of seq that belong to student sid
Filter(seq, sid) ==
    IF seq = <<>> THEN <<>>
    ELSE IF Head(seq).student_id = sid
         THEN <<Head(seq)>> \o Filter(Tail(seq), sid)
         ELSE Filter(Tail(seq), sid)

RECURSIVE Without(_, _)
\* DELETE FROM ... WHERE student_id = sid
Without(seq, sid) ==
    IF seq = <<>> THEN <<>>
    ELSE IF Head(seq).student_id = sid
         THEN Without(Tail(seq), sid)
         ELSE <<Head(seq)>> \o Without(Tail(seq), sid)

RECURSIVE Reverse(_)
Reverse(seq) == IF seq = <<>> THEN <<>> ELSE Reverse(Tail(seq)) \o <<Head(seq)>>

\* SELECT id FROM students WHERE student_id = ?
StudentExists(studs, sid) == \E i \in 1..Len(studs) : studs[i].student_id = sid

\* register_student on a students table without UNIQUE on student_id
register_student_no_unique(studs, sid) ==
    [ok |-> TRUE, students |-> Append(studs, StudentRow(sid))]

\* register_student: the UNIQUE constraint makes a second insert fail
register_student(studs, sid) ==
    IF StudentExists(studs, sid)
    THEN [ok |-> FALSE, students |-> studs]
    ELSE [ok |-> TRUE, students |-> Append(studs, StudentRow(sid))]

\* store_voice_embedding: raises ValueError for an unknown student
store_voice_embedding(studs, embs, sid, embedding) ==
    IF ~StudentExists(studs, sid)
    THEN [raised |-> TRUE, voice_embeddings |-> embs]
    ELSE [raised |-> FALSE,
          voice_embeddings |-> Append(embs, EmbeddingRow(sid, embedding))]

\* get_student_embeddings with "LIMIT 1" added to its query: the most
\* recent row alone
latest_student_embedding(embs, sid) ==
    IF Filter(embs, sid) = <<>> THEN <<>>
    ELSE <<Reverse(Filter(embs, sid))[1]>>

\* get_student_embeddings: ORDER BY registration_date DESC
get_student_embeddings(embs, sid) == Reverse(Filter(embs, sid))

\* list_all_students: ORDER BY registration_date DESC
list_all_students(studs) == Reverse(studs)

\* get_student_info: the student_id of the row, or NoStudent for None
get_student_info(studs, sid) ==
    IF StudentExists(studs, sid) THEN sid ELSE NoStudent

\* log_login_attempt
log_login_attempt(log, sid, ok, sc) == Append(log, AttemptRow(sid, ok, sc))

RECURSIVE Similarities(_, _)
\* the list "similarities" built by the loop of verify_student_voice
Similarities(test_embedding, rows) ==
    IF rows = <<>> THEN <<>>
    ELSE <<calculate_cosine_similarity(test_embedding, Head(rows).embedding).val>>
         \o Similarities(test_embedding, Tail(rows))

\* similarities[0] in the place of max(similarities): the score of the most
\* recent stored encoding
PyFirst(xs) == Head(xs)

RECURSIVE PyMax(_)
\* Python max() of a non-empty list: the first of the largest elements
PyMax(xs) ==
    IF Len(xs) = 1 THEN Head(xs)
    ELSE LET m == PyMax(Tail(xs))
         IN  IF ScoreGeq(Head(xs), m) THEN Head(xs) ELSE m

\* verify_student_voice with "max_similarity > similarity_threshold" in the
\* place of ">="
verify_student_voice_strict(embs, sid, test_embedding, similarity_threshold) ==
    IF test_embedding = None
    THEN [is_match |-> FALSE, similarity |-> Zero]
    ELSE LET rows == get_student_embeddings(embs, sid)
         IN  IF rows = <<>>
             THEN [is_match |-> FALSE, similarity |-> Zero]
             ELSE LET max_similarity == PyMax(Similarities(test_embedding, rows))
                  IN  [is_match |-> ScoreGt(max_similarity, similarity_threshold),
                       similarity |-> max_similarity]

\* verify_student_voice without its "if not embeddings: return False, 0.0":
\* the empty list falls through to "max(similarities) if similarities else
\* 0.0" and to the comparison with the threshold
verify_student_voice_unchecked(embs, sid, test_embedding, similarity_threshold) ==
    IF test_embedding = None
    THEN [is_match |-> FALSE, similarity |-> Zero]
    ELSE LET rows == get_student_embeddings(embs, sid)
             max_similarity == IF rows = <<>> THEN Zero
                               ELSE PyMax(Similarities(test_embedding, rows))
         IN  [is_match |-> ScoreGeq(max_similarity, similarity_threshold),
              similarity |-> max_similarity]

\* verify_student_voice(student_id, test_embedding, similarity_threshold)
verify_student_voice(embs, sid, test_embedding, similarity_threshold) ==
    IF test_embedding = None
    THEN [is_match |-> FALSE, similarity |-> Zero]
    ELSE LET rows == get_student_embeddings(embs, sid)
         IN  IF rows = <<>>
             THEN [is_match |-> FALSE, similarity |-> Zero]
             ELSE LET max_similarity == PyMax(Similarities(test_embedding, rows))
                  IN  [is_match |-> ScoreGeq(max_similarity, similarity_threshold),
                       similarity |-> max_similarity]

----------------------------------------------------------------------------
(* model.py and the preparation of the training data *)

\* the rows of "students s JOIN voice_embeddings ve ... WHERE s.is_active = 1"
JoinRows(studs, embs) ==
    SelectSeq(embs, LAMBDA r : \E i \in 1..Len(studs) :
                                  /\ studs[i].student_id = r.student_id
                                  /\ studs[i].is_active)

\* the same query written with a LEFT JOIN: a student without embeddings
\* yields a row too, with no embedding in it
LeftJoinRows(studs, embs) ==
    JoinRows(studs, embs)
    \o [i \in 1..Len(SelectSeq(studs, LAMBDA st :
                        st.is_active /\ Filter(embs, st.student_id) = <<>>)) |->
           [student_id |-> SelectSeq(studs, LAMBDA st :
                               st.is_active
                               /\ Filter(embs, st.student_id) = <<>>)[i].student_id,
            embedding |-> None]]

RECURSIVE GroupByStudent(_, _)
\* the loop of get_all_student_embeddings: student_data, a dict in insertion
\* order, as a sequence of [student_id, embeddings]
GroupByStudent(rows, student_data) ==
    IF rows = <<>> THEN student_data
    ELSE LET r == Head(rows)
             at == {i \in 1..Len(student_data) :
                       student_data[i].student_id = r.student_id}
             held == IF r.embedding = None THEN <<>> ELSE <<r.embedding>>
         IN  IF at = {}
             THEN GroupByStudent(Tail(rows),
                      Append(student_data, [student_id |-> r.student_id,
                                            embeddings |-> held]))
             ELSE GroupByStudent(Tail(rows),
                      [student_data EXCEPT
                          ![CHOOSE i \in at : TRUE].embeddings = @ \o held])

\* get_all_student_embeddings over the LEFT JOIN
all_students_left_join(studs, embs) ==
    GroupByStudent(LeftJoinRows(studs, embs), <<>>)

\* database.VoiceDatabase.get_all_student_embeddings
get_all_student_embeddings(studs, embs) ==
    GroupByStudent(JoinRows(studs, embs), <<>>)

RECURSIVE SamplesByRow(_, _)
\* X_train and y_train with the label counting the samples, not the students
SamplesByRow(student_data, i) ==
    IF student_data = <<>> THEN [X |-> <<>>, y |-> <<>>]
    ELSE LET n == Len(Head(student_data).embeddings)
             rest == SamplesByRow(Tail(student_data), i + n)
         IN  [X |-> Head(student_data).embeddings \o rest.X,
              y |-> [k \in 1..n |-> i + k - 1] \o rest.y]

RECURSIVE Samples(_, _)
\* for i, (student_id, data) in enumerate(student_data.items()):
\*     for embedding in data['embeddings']: X_train.append(embedding);
\*                                          y_train.append(i)
Samples(student_data, i) ==
    IF student_data = <<>> THEN [X |-> <<>>, y |-> <<>>]
    ELSE LET n == Len(Head(student_data).embeddings)
             rest == Samples(Tail(student_data), i + 1)
         IN  [X |-> Head(student_data).embeddings \o rest.X,
              y |-> [k \in 1..n |-> i] \o rest.y]

\* np.array(X_train) followed by the reshape to (N, rows, columns, 1) raises
\* unless all samples have one shape
ReshapeRaises(X) ==
    \E i, j \in 1..Len(X) :
        <<Len(X[i]), Len(X[i][1])>> # <<Len(X[j]), Len(X[j][1])>>

\* the training data train_model prepares from student_data
TrainingData(student_data) ==
    LET s == Samples(student_data, 0)
    IN  [student_ids |-> [k \in 1..Len(student_data) |->
                             student_data[k].student_id],
         X_train |-> s.X,
         y_train |-> s.y,
         num_classes |-> Len(student_data),
         raises |-> ReshapeRaises(s.X)]

\* no training data (yet)
NoData ==
    [student_ids |-> <<>>, X_train |-> <<>>, y_train |-> <<>>,
     num_classes |-> 0, raises |-> FALSE]

\* A front end's self.model.  exists: self.model is not None; net: the state
\* of the Keras model self.model.model ("none": not built); classes: the
\* student_ids, in class-index order, the weights were fitted for.
NoModel == [exists |-> FALSE, net |-> "none", num_classes |-> 0, classes |-> <<>>]

\* VoiceRecognitionCNN(input_shape, num_classes)
VoiceRecognitionCNN(n) ==
    [exists |-> TRUE, net |-> "none", num_classes |-> n, classes |-> <<>>]

\* build_model and compile_model
build_model(m) == [m EXCEPT !.net = "untrained", !.classes = <<>>]

\* VoiceRecognitionCNN.train_model: model.fit run to its end on the samples
\* labelled by the positions of student_ids
fit_model(m, student_ids) == [m EXCEPT !.net = "trained", !.classes = student_ids]

\* the file voice_recognition_model.h5
NoFile == [saved |-> FALSE, net |-> "none", classes |-> <<>>]

\* what a save_model that raised part-way may have left of the file
CorruptFile == [saved |-> TRUE, net |-> "corrupt", classes |-> <<>>]

\* VoiceRecognitionCNN.save_model
save_model(m) == [saved |-> TRUE, net |-> m.net, classes |-> m.classes]

\* load_model of cli_app / app at start-up: a placeholder instance for ten
\* classes, into which the saved Keras model is loaded; an unreadable file
\* raises and leaves the placeholder
load_model(file) ==
    IF ~file.saved THEN NoModel
    ELSE IF file.net = "corrupt" THEN VoiceRecognitionCNN(10)
    ELSE [VoiceRecognitionCNN(10) EXCEPT !.net = file.net, !.classes = file.classes]

\* where a training run may raise for reasons outside the program (memory,
\* disk): in build_model, in fit, in save_model, or nowhere
TrainFailures == {"none", "build", "fit", "save"}

\* what predict_speaker does when it is called: a confident prediction, an
\* unconfident one, or an exception (an input the loaded model rejects)
Inferences == {"confident", "unsure", "raises"}

\* lines 328-338 of app.identify_and_login raise: a model is there and
\* predict_speaker raises
ClassifierRaises(m, infer) == m.exists /\ m.net # "none" /\ infer = "raises"

----------------------------------------------------------------------------
(* Open-set identification: the loop shared by the four login handlers *)

RECURSIVE BestMatchLastOnTie(_, _, _, _)
\* the loop with "similarity >= best_similarity" in the place of ">"
BestMatchLastOnTie(embs, features, all_students, acc) ==
    IF all_students = <<>> THEN acc
    ELSE LET student == Head(all_students)
             v == verify_student_voice(embs, student.student_id, features,
                                       DefaultThreshold)
         IN  IF ~student.is_active
             THEN BestMatchLastOnTie(embs, features, Tail(all_students), acc)
             ELSE IF ScoreGeq(v.similarity, acc.best_similarity)
             THEN BestMatchLastOnTie(embs, features, Tail(all_students),
                                     [best_student |-> student.student_id,
                                      best_similarity |-> v.similarity])
             ELSE BestMatchLastOnTie(embs, features, Tail(all_students), acc)

RECURSIVE BestMatch(_, _, _, _)
\* for student in all_students: ... if similarity > best_similarity: ...
\* acc carries best_student (a student_id) and best_similarity.
BestMatch(embs, features, all_students, acc) ==
    IF all_students = <<>> THEN acc
    ELSE LET student == Head(all_students)
             v == verify_student_voice(embs, student.student_id, features,
                                       DefaultThreshold)
         IN  IF ~student.is_active
             THEN BestMatch(embs, features, Tail(all_students), acc)
             ELSE IF ScoreGt(v.similarity, acc.best_similarity)
             THEN BestMatch(embs, features, Tail(all_students),
                            [best_student |-> student.student_id,
                             best_similarity |-> v.similarity])
             ELSE BestMatch(embs, features, Tail(all_students), acc)

\* best_student = None, best_similarity = 0.0
NoBest == [best_student |-> NoStudent, best_similarity |-> Zero]

\* The names bound at module level by the import statements of cli_app.py
\* and of app.py.  Both handlers evaluate time.time() for the name of their
\* temporary file; a name that is not bound raises NameError.
cli_app_names == {"os", "sys", "argparse", "np", "datetime",
                  "AudioPreprocessor", "VoiceRecognitionCNN", "VoiceDatabase",
                  "AudioRecorder"}

\* the names of app.py had it imported time as the web handlers do
app_names_with_time ==
    {"os", "sys", "np", "tk", "ttk", "messagebox", "filedialog", "threading",
     "datetime", "time", "AudioPreprocessor", "VoiceRecognitionCNN",
     "VoiceDatabase", "AudioRecorder"}

app_names == {"os", "sys", "np", "tk", "ttk", "messagebox", "filedialog",
              "threading", "datetime", "AudioPreprocessor",
              "VoiceRecognitionCNN", "VoiceDatabase", "AudioRecorder"}

web_app_names == {"Flask", "render_template", "request", "jsonify", "os",
                  "base64", "np", "sf", "librosa", "time", "signal", "zoom",
                  "AudioPreprocessor", "VoiceDatabase"}

web_app_fixed_names == {"Flask", "render_template", "request", "jsonify",
                        "os", "base64", "np", "sf", "librosa", "time",
                        "AudioPreprocessor", "VoiceDatabase"}

----------------------------------------------------------------------------
(* What the last operation did and returned *)

Done(op, sid, clip, features, success, similarity, best, outcome, logged) ==
    [op |-> op, student_id |-> sid, clip |-> clip, features |-> features,
     other |-> None, threshold |-> DefaultThreshold, success |-> success,
     similarity |-> similarity, best_student |-> best, outcome |-> outcome,
     logged |-> logged, raised |-> FALSE]

Idle == Done("none", NoStudent, NoClip, None, FALSE, Zero, NoStudent,
             "none", FALSE)

\* the thread identifiers
Tids == 1..MaxThreads

\* the values int(time.time()) takes while requests arrive
Seconds == {"t0", "t1"}

\* a file of temp_audio that does not exist: reading it yields nothing
NoWav == NotRecorded

\* a thread that is not running
IdleThread ==
    [pc |-> "idle", data |-> NoData, op |-> "none", clip |-> NoClip,
     wav_file |-> "none", features |-> None]

Init ==
    /\ students = <<>>
    /\ voice_embeddings = <<>>
    /\ login_attempts = <<>>
    /\ last = Idle
    /\ model = [cli |-> NoModel, desktop |-> NoModel]
    /\ model_file = NoFile
    /\ train_btn = "normal"
    /\ threads = [t \in Tids |-> IdleThread]
    /\ temp_audio = [n \in Seconds |-> NoWav]

----------------------------------------------------------------------------
(* Login handlers *)

\* an early "return False" / failure response: nothing is logged
Unlogged(op, sid, clip, features, outcome) ==
    /\ last' = Done(op, sid, clip, features, FALSE, Zero, NoStudent, outcome,
                    FALSE)
    /\ UNCHANGED login_attempts

\* the handler logs (sid, success, similarity) and returns success
Logged(op, claimed, clip, features, sid, success, b, outcome) ==
    /\ login_attempts' = log_login_attempt(login_attempts, sid, success,
                                           b.best_similarity)
    /\ last' = Done(op, claimed, clip, features, success, b.best_similarity,
                    b.best_student, outcome, TRUE)

\* The decision of cli_app._voice_only_login and of app.identify_and_login,
\* the temporary file having been written: the outcome and the best match.
\* classifier_raises: the classifier block of app.identify_and_login (lines
\* 327-338), which cli_app does not have, raises.
ThreeTierDecision(features, classifier_raises) ==
    IF features = None THEN [outcome |-> "NoFeatures", b |-> NoBest]
    ELSE IF list_all_students(students) = <<>>
    THEN [outcome |-> "NoStudents", b |-> NoBest]
    ELSE IF classifier_raises THEN [outcome |-> "Exception", b |-> NoBest]
    ELSE LET b == BestMatch(voice_embeddings, features,
                            list_all_students(students), NoBest)
         IN  IF b.best_student # NoStudent
                /\ ScoreGeq(b.best_similarity, ConfidenceThreshold)
             THEN [outcome |-> "Accept", b |-> b]
             ELSE IF b.best_student # NoStudent
                     /\ ScoreGeq(b.best_similarity, PossibleThreshold)
             THEN [outcome |-> "PossibleMatch", b |-> b]
             ELSE [outcome |-> "Reject", b |-> b]

\* what the handler does with the decision d: the early returns and the
\* except clause log nothing, the three tiers log
ThreeTier(op, clip, features, d) ==
    IF d.outcome \in {"NoFeatures", "NoStudents", "Exception"}
    THEN Unlogged(op, NoStudent, clip, features, d.outcome)
    ELSE Logged(op, NoStudent, clip, features,
                IF d.outcome = "Reject" THEN UNKNOWN ELSE d.b.best_student,
                d.outcome = "Accept", d.b, d.outcome)

\* cli_app.VoiceRecognitionCLI._voice_only_login
CliVoiceOnlyLogin(clip) ==
    /\ Len(login_attempts) < MaxLog
    /\ IF ~clip.recorded \/ "time" \notin cli_app_names
       THEN Unlogged("cli_voice_only", NoStudent, clip, None, "Exception")
       ELSE \E features \in {preprocess_audio(clip, "spectrogram")} :
            \E d \in {ThreeTierDecision(features, FALSE)} :
                ThreeTier("cli_voice_only", clip, features, d)
    /\ UNCHANGED <<students, voice_embeddings, app_vars>>

\* The decision of app.identify_and_login on a recorded clip, m being
\* self.model and infer what predict_speaker does if it is called.
DesktopDecision(clip, m, infer) ==
    IF "time" \notin app_names THEN [outcome |-> "Exception", b |-> NoBest]
    ELSE ThreeTierDecision(preprocess_audio(clip, "spectrogram"),
                           ClassifierRaises(m, infer))

\* app.VoiceRecognitionApp.identify_and_login, called by login_thread with
\* the recorded audio
DesktopIdentifyAndLogin(clip, infer) ==
    /\ Len(login_attempts) < MaxLog
    /\ clip.recorded
    /\ \E d \in {DesktopDecision(clip, model.desktop, infer)} :
          IF "time" \notin app_names
          THEN Unlogged("desktop_identify", NoStudent, clip, None, d.outcome)
          ELSE ThreeTier("desktop_identify", clip,
                         preprocess_audio(clip, "spectrogram"), d)
    /\ UNCHANGED <<students, voice_embeddings, app_vars>>

\* the chain of web_app with its first two modes exchanged
ExtractMfccFirst(clip) ==
    LET spec == preprocess_audio(clip, "spectrogram")
        mfcc == preprocess_audio(clip, "mfcc")
    IN  IF mfcc # None THEN mfcc
        ELSE IF spec # None THEN spec
        ELSE clip.simple

\* web_app: spectrogram, then mfcc, then the manual STFT estimate
ExtractWithFallback(clip) ==
    LET spec == preprocess_audio(clip, "spectrogram")
        mfcc == preprocess_audio(clip, "mfcc")
    IN  IF spec # None THEN spec
        ELSE IF mfcc # None THEN mfcc
        ELSE clip.simple

\* The two-way decision of the api_voice_login handlers.
TwoTier(op, clip, features, accept) ==
    IF features = None THEN Unlogged(op, NoStudent, clip, features, "NoFeatures")
    ELSE IF list_all_students(students) = <<>>
    THEN Unlogged(op, NoStudent, clip, features, "NoStudents")
    ELSE \E b \in {BestMatch(voice_embeddings, features,
                             list_all_students(students), NoBest)} :
         IF b.best_student # NoStudent /\ ScoreGeq(b.best_similarity, accept)
         THEN Logged(op, NoStudent, clip, features, b.best_student, TRUE, b,
                     "Accept")
         ELSE Logged(op, NoStudent, clip, features, UNKNOWN, FALSE, b, "Reject")

\* web_app.api_voice_login, the upload converted to a WAV clip
WebVoiceLogin(clip) ==
    /\ Len(login_attempts) < MaxLog
    /\ clip.recorded
    /\ IF "time" \notin web_app_names
       THEN Unlogged("web_login", NoStudent, clip, None, "Exception")
       ELSE TwoTier("web_login", clip, ExtractWithFallback(clip),
                    WebConfidenceThreshold)
    /\ UNCHANGED <<students, voice_embeddings, app_vars>>

\* web_app_fixed.api_voice_login
WebFixedVoiceLogin(clip) ==
    /\ Len(login_attempts) < MaxLog
    /\ clip.recorded
    /\ IF "time" \notin web_app_fixed_names
       THEN Unlogged("web_fixed_login", NoStudent, clip, None, "Exception")
       ELSE TwoTier("web_fixed_login", clip,
                    preprocess_audio(clip, "spectrogram"), ConfidenceThreshold)
    /\ UNCHANGED <<students, voice_embeddings, app_vars>>

\* cli_app.VoiceRecognitionCLI.login_student(student_id) and
\* _verify_specific_student: closed-set verification of a claimed identity
CliVerifySpecificStudent(sid, clip) ==
    /\ Len(login_attempts) < MaxLog
    /\ IF get_student_info(students, sid) = NoStudent
       THEN Unlogged("cli_verify", sid, clip, None, "NotFound")
       ELSE IF ~clip.recorded
       THEN Unlogged("cli_verify", sid, clip, None, "Exception")
       ELSE \E features \in {preprocess_audio(clip, "spectrogram")} :
            IF features = None
            THEN Unlogged("cli_verify", sid, clip, features, "NoFeatures")
            ELSE \E v \in {verify_student_voice(voice_embeddings, sid,
                                                features, DefaultThreshold)} :
                 Logged("cli_verify", sid, clip, features, sid, v.is_match,
                        [best_student |-> IF v.is_match THEN sid ELSE NoStudent,
                         best_similarity |-> v.similarity],
                        IF v.is_match THEN "Accept" ELSE "Reject")
    /\ UNCHANGED <<students, voice_embeddings, app_vars>>

\* run_demo.main, one round of the authentication test: the first row of
\* get_student_embeddings is the probe
DemoVerify(sid) ==
    /\ Len(login_attempts) < MaxLog
    /\ get_student_info(students, sid) # NoStudent
    /\ get_student_embeddings(voice_embeddings, sid) # <<>>
    /\ \E test_embedding \in
             {get_student_embeddings(voice_embeddings, sid)[1].embedding} :
       \E v \in {verify_student_voice(voice_embeddings, sid, test_embedding,
                                      DefaultThreshold)} :
          Logged("demo_verify", sid, NoClip, test_embedding, sid, v.is_match,
                 [best_student |-> IF v.is_match THEN sid ELSE NoStudent,
                  best_similarity |-> v.similarity],
                 IF v.is_match THEN "Accept" ELSE "Reject")
    /\ UNCHANGED <<students, voice_embeddings, app_vars>>

----------------------------------------------------------------------------
(* Registration and deletion *)

Registered(op, sid, clip, features, success, outcome) ==
    Done(op, sid, clip, features, success, Zero, NoStudent, outcome, FALSE)

\* The registration of cli_app.register_student and of app.register_student:
\* the student row first, then the recording is processed and stored.
RowThenVoice(op, sid, clip) ==
    \E r \in {register_student(students, sid)} :
    \E features \in {preprocess_audio(clip, "spectrogram")} :
        /\ students' = r.students
        /\ IF ~r.ok
           THEN /\ last' = Registered(op, sid, clip, None, FALSE, "Exists")
                /\ UNCHANGED voice_embeddings
           ELSE IF ~clip.recorded
           THEN /\ last' = Registered(op, sid, clip, None, FALSE, "Exception")
                /\ UNCHANGED voice_embeddings
           ELSE IF features = None
           THEN /\ last' = Registered(op, sid, clip, features, FALSE,
                                      "NoFeatures")
                /\ UNCHANGED voice_embeddings
           ELSE /\ voice_embeddings' =
                       store_voice_embedding(r.students, voice_embeddings, sid,
                                             features).voice_embeddings
                /\ last' = Registered(op, sid, clip, features, TRUE, "Stored")
        /\ UNCHANGED <<login_attempts, app_vars>>

\* cli_app.VoiceRecognitionCLI.register_student
CliRegisterStudent(sid, clip) ==
    /\ clip.recorded \/ clip = NotRecorded
    /\ RowThenVoice("cli_register", sid, clip)

\* app.VoiceRecognitionApp.register_student, a voice having been recorded
DesktopRegisterStudent(sid, clip) ==
    /\ clip.recorded
    /\ RowThenVoice("desktop_register", sid, clip)

RECURSIVE AddToRow(_, _)
AddToRow(row, d) ==
    IF row = <<>> THEN <<>> ELSE <<Head(row) + d>> \o AddToRow(Tail(row), d)

RECURSIVE AddNoise(_, _)
\* features + np.random.normal(0, noise_level, features.shape), the noise
\* drawn being d in every entry
AddNoise(features, d) ==
    IF features = <<>> THEN <<>>
    ELSE <<AddToRow(Head(features), d)>> \o AddNoise(Tail(features), d)

\* The registration of the web handlers: the features first, then the
\* student row, then the embedding and its noisy variations.
VoiceThenRow(op, sid, clip, features, noise) ==
    \E r \in {register_student(students, sid)} :
        /\ IF features = None
           THEN /\ last' = Registered(op, sid, clip, features, FALSE,
                                      "NoFeatures")
                /\ UNCHANGED <<students, voice_embeddings>>
           ELSE IF ~r.ok
           THEN /\ last' = Registered(op, sid, clip, features, FALSE, "Exists")
                /\ UNCHANGED <<students, voice_embeddings>>
           ELSE /\ students' = r.students
                /\ voice_embeddings' =
                       voice_embeddings
                       \o <<EmbeddingRow(sid, features)>>
                       \o [i \in 1..Len(noise) |->
                              EmbeddingRow(sid, AddNoise(features, noise[i]))]
                /\ last' = Registered(op, sid, clip, features, TRUE, "Stored")
        /\ UNCHANGED <<login_attempts, app_vars>>

\* web_app.api_register_student, the upload converted to a WAV clip; d1 and
\* d2 are the noise of the two stored variations
WebRegisterStudent(sid, clip, d1, d2) ==
    /\ clip.recorded
    /\ VoiceThenRow("web_register", sid, clip, ExtractWithFallback(clip),
                    <<d1, d2>>)

\* web_app_fixed.api_register_student
WebFixedRegisterStudent(sid, clip) ==
    /\ clip.recorded
    /\ VoiceThenRow("web_fixed_register", sid, clip,
                    preprocess_audio(clip, "spectrogram"), <<>>)

\* delete_student without its "DELETE FROM login_attempts"
delete_student_keep_attempts(sid) ==
    /\ voice_embeddings' = Without(voice_embeddings, sid)
    /\ students' = Without(students, sid)
    /\ last' = Registered("delete", sid, NoClip, None, TRUE, "Deleted")
    /\ UNCHANGED <<login_attempts, app_vars>>

\* database.VoiceDatabase.delete_student
delete_student(sid) ==
    /\ voice_embeddings' = Without(voice_embeddings, sid)
    /\ login_attempts' = Without(login_attempts, sid)
    /\ students' = Without(students, sid)
    /\ last' = Registered("delete", sid, NoClip, None, TRUE, "Deleted")
    /\ UNCHANGED app_vars

----------------------------------------------------------------------------
(* The web handlers from the uploaded bytes on: convert_audio_to_wav *)

\* the encoding of the uploaded bytes read as 16-bit PCM samples
SpecRaw == << <<-2, -2>>, <<0, 0>> >>

\* the encoding of the 440 Hz sine wave of "Method 3"
SpecTone == << <<-5, 0>>, <<0, 0>> >>

\* the WAV file "Method 2" writes: the bytes of the upload as PCM samples
RawPcmClip == Clip(SpecRaw, MfccM, SimpleS)

\* the WAV file "Method 3" writes: three seconds of a sine wave
ToneClip == Clip(SpecTone, MfccM, SimpleS)

\* An upload: whether librosa can decode its bytes as audio, and the clip
\* it decodes to.
Upload(dec, audio) == [decodable |-> dec, audio |-> audio]

UndecodableUpload == Upload(FALSE, NotRecorded)

\* where a conversion raises for reasons outside the program (the disk):
\* nowhere, when the raw samples are written, or there and when the tone is
\* written as well
ConversionFailures == {"none", "raw", "tone"}

\* web_app.convert_audio_to_wav: librosa on the bytes; if that raises, the
\* bytes written as raw PCM; if that raises, a generated tone; False only
\* if that raises as well
convert_audio_to_wav(upload, fail) ==
    IF upload.decodable THEN [ok |-> TRUE, wav |-> upload.audio]
    ELSE IF fail = "none" THEN [ok |-> TRUE, wav |-> RawPcmClip]
    ELSE IF fail = "raw" THEN [ok |-> TRUE, wav |-> ToneClip]
    ELSE [ok |-> FALSE, wav |-> NotRecorded]

\* web_app_fixed.convert_audio_to_wav: librosa on the bytes; if that raises,
\* the raw file is renamed to the WAV path, and nothing can be extracted
\* from it; False if the rename raises (rename_fails)
convert_audio_to_wav_fixed(upload, rename_fails) ==
    IF upload.decodable THEN [ok |-> TRUE, wav |-> upload.audio]
    ELSE IF ~rename_fails THEN [ok |-> TRUE, wav |-> NoClip]
    ELSE [ok |-> FALSE, wav |-> NotRecorded]

\* a web handler answers 'Audio conversion failed'
ConversionFailed(op, sid) ==
    /\ last' = Registered(op, sid, NotRecorded, None, FALSE, "ConversionFailed")
    /\ UNCHANGED <<students, voice_embeddings, login_attempts, app_vars>>

\* web_app.api_register_student from the decoded bytes on
WebRegisterUpload(sid, upload, fail, d) ==
    \E c \in {convert_audio_to_wav(upload, fail)} :
        IF ~c.ok THEN ConversionFailed("web_register", sid)
        ELSE WebRegisterStudent(sid, c.wav, d, d)

\* web_app_fixed.api_register_student from the decoded bytes on
WebFixedRegisterUpload(sid, upload, rename_fails) ==
    \E c \in {convert_audio_to_wav_fixed(upload, rename_fails)} :
        IF ~c.ok THEN ConversionFailed("web_fixed_register", sid)
        ELSE WebFixedRegisterStudent(sid, c.wav)

\* web_app.api_voice_login from the decoded bytes on
WebLoginUpload(upload, fail) ==
    \E c \in {convert_audio_to_wav(upload, fail)} :
        IF ~c.ok THEN ConversionFailed("web_login", NoStudent)
        ELSE WebVoiceLogin(c.wav)

\* web_app_fixed.api_voice_login from the decoded bytes on
WebFixedLoginUpload(upload, rename_fails) ==
    \E c \in {convert_audio_to_wav_fixed(upload, rename_fails)} :
        IF ~c.ok THEN ConversionFailed("web_fixed_login", NoStudent)
        ELSE WebFixedVoiceLogin(c.wav)

----------------------------------------------------------------------------
(* Direct calls of the database *)

\* a call register_student(sid, name)
RegisterCall(sid) ==
    \E r \in {register_student(students, sid)} :
        /\ students' = r.students
        /\ last' = Registered("register", sid, NoClip, None, r.ok,
                              IF r.ok THEN "Registered" ELSE "Exists")
        /\ UNCHANGED <<voice_embeddings, login_attempts, app_vars>>

\* a call store_voice_embedding(sid, embedding, audio_data)
StoreCall(sid, embedding) ==
    /\ Len(voice_embeddings) < MaxStored
    /\ \E r \in {store_voice_embedding(students, voice_embeddings, sid,
                                    embedding)} :
          /\ voice_embeddings' = r.voice_embeddings
          /\ last' = [Registered("store", sid, NoClip, embedding, ~r.raised,
                                 IF r.raised THEN "NotFound" ELSE "Stored")
                      EXCEPT !.raised = r.raised]
    /\ UNCHANGED <<students, login_attempts, app_vars>>

----------------------------------------------------------------------------
(* Direct calls of the similarity engine *)

\* a call verify_student_voice(sid, probe, threshold)
VerifyCall(sid, probe, threshold) ==
    \E v \in {verify_student_voice(voice_embeddings, sid, probe, threshold)} :
        /\ last' = [Done("verify", sid, NoClip, probe, v.is_match, v.similarity,
                         NoStudent, "none", FALSE)
                    EXCEPT !.threshold = threshold]
        /\ UNCHANGED <<students, voice_embeddings, login_attempts, app_vars>>

\* the identification loop of the login handlers run on a probe
IdentifyCall(probe) ==
    \E b \in {BestMatch(voice_embeddings, probe, list_all_students(students),
                        NoBest)} :
        /\ last' = Done("identify", NoStudent, NoClip, probe, FALSE,
                        b.best_similarity, b.best_student, "none", FALSE)
        /\ UNCHANGED <<students, voice_embeddings, login_attempts, app_vars>>

\* a call calculate_cosine_similarity(e1, e2)
CompareCall(e1, e2) ==
    \E c \in {calculate_cosine_similarity(e1, e2)} :
        /\ last' = [Done("compare", NoStudent, NoClip, e1, FALSE, c.val,
                         NoStudent, "none", FALSE)
                    EXCEPT !.other = e2, !.raised = c.raised]
        /\ UNCHANGED <<students, voice_embeddings, login_attempts, app_vars>>

----------------------------------------------------------------------------
(* Direct calls of the preprocessing functions *)

\* what a call of a preprocessing function was given and returned
Called(op, input, arg, result, raised) ==
    [op |-> op, input |-> input, arg |-> arg, result |-> result,
     raised |-> raised]

\* a call pad_sequence(features)
PadCall(features) ==
    /\ last' = Called("pad_sequence", features, None, pad_sequence(features),
                      FALSE)
    /\ UNCHANGED <<students, voice_embeddings, login_attempts, app_vars>>

\* a call remove_silence(audio, threshold)
SilenceCall(audio, threshold) ==
    /\ last' = Called("remove_silence", audio, threshold,
                      remove_silence(audio, threshold), FALSE)
    /\ UNCHANGED <<students, voice_embeddings, login_attempts, app_vars>>

\* a call load_audio(file)
LoadCall(file) ==
    /\ last' = Called("load_audio", file, None, load_audio(file), FALSE)
    /\ UNCHANGED <<students, voice_embeddings, login_attempts, app_vars>>

\* a call preprocess_audio(file, feature_type)
PreprocessCall(file, feature_type) ==
    \E r \in {preprocess_audio_file(file, feature_type)} :
        /\ last' = Called("preprocess_audio", file, feature_type, r.val,
                          r.raised)
        /\ UNCHANGED <<students, voice_embeddings, login_attempts, app_vars>>

----------------------------------------------------------------------------
(* Training: cli_app.train_model, run to its end by the caller *)

\* train_model of cli_app from its first line to its return.  prev is
\* self.model, fail where the run raises for an outside reason.  Gives the
\* self.model the run leaves, its outcome, and what became of the model
\* file: "kept", "written", or "torn" (save_model raised: the file is as
\* before or unreadable).
TrainRun(prev, student_data, fail) ==
    IF Len(student_data) < 2
    THEN [model |-> prev, outcome |-> "Insufficient", file |-> "kept"]
    ELSE LET d == TrainingData(student_data)
             created == VoiceRecognitionCNN(d.num_classes)
             built == build_model(created)
             fitted == fit_model(built, d.student_ids)
         IN  IF d.raises
             THEN [model |-> prev, outcome |-> "PrepareFailed", file |-> "kept"]
             ELSE IF fail = "build"
             THEN [model |-> created, outcome |-> "BuildFailed", file |-> "kept"]
             ELSE IF fail = "fit"
             THEN [model |-> built, outcome |-> "FitFailed", file |-> "kept"]
             ELSE IF fail = "save"
             THEN [model |-> fitted, outcome |-> "SaveFailed", file |-> "torn"]
             ELSE [model |-> fitted, outcome |-> "Trained", file |-> "written"]

\* cli_app.VoiceRecognitionCLI.train_model
CliTrainModel(fail) ==
    \E r \in {TrainRun(model.cli,
                       get_all_student_embeddings(students, voice_embeddings),
                       fail)} :
    \E f \in (IF r.file = "kept" THEN {model_file}
              ELSE IF r.file = "written" THEN {save_model(r.model)}
              ELSE {model_file, CorruptFile}) :
        /\ model' = [model EXCEPT !.cli = r.model]
        /\ model_file' = f
        /\ last' = Done("cli_train", NoStudent, NoClip, None,
                        r.outcome = "Trained", Zero, NoStudent, r.outcome, FALSE)
        /\ UNCHANGED <<students, voice_embeddings, login_attempts, train_btn,
                       threads, temp_audio>>

\* cli_app.VoiceRecognitionCLI.__init__: a new CLI process loads the saved
\* model, if there is one
CliStart ==
    /\ model' = [model EXCEPT !.cli = load_model(model_file)]
    /\ last' = Done("cli_start", NoStudent, NoClip, None, model_file.saved,
                    Zero, NoStudent, "Started", FALSE)
    /\ UNCHANGED <<students, voice_embeddings, login_attempts, model_file,
                   train_btn, threads, temp_audio>>

----------------------------------------------------------------------------
(* Training in the desktop app: app.train_model starts a thread per click *)

\* the "finally" of training_thread: the button is enabled again and the
\* thread ends
ThreadEnds(t) ==
    /\ threads' = [threads EXCEPT ![t] = IdleThread]
    /\ train_btn' = "normal"

\* app.VoiceRecognitionApp.__init__: the application starts and loads the
\* saved model, if there is one
DesktopStart ==
    /\ \A t \in Tids : threads[t].pc = "idle"
    /\ model' = [model EXCEPT !.desktop = load_model(model_file)]
    /\ train_btn' = "normal"
    /\ last' = Done("desktop_start", NoStudent, NoClip, None, model_file.saved,
                    Zero, NoStudent, "Started", FALSE)
    /\ UNCHANGED <<students, voice_embeddings, login_attempts, model_file,
                   threads, temp_audio>>

\* app.train_model, the command of the Train button: line 507 starts
\* training_thread.  A disabled button does not call its command.
TrainClick(t) ==
    /\ train_btn = "normal"
    /\ threads[t].pc = "idle"
    /\ \A u \in Tids : u < t => threads[u].pc # "idle"
    /\ threads' = [threads EXCEPT ![t].pc = "start"]
    /\ UNCHANGED <<db_vars, model, model_file, train_btn, temp_audio>>

\* training_thread, lines 455-457: the thread disables the button
TrainBegin(t) ==
    /\ threads[t].pc = "start"
    /\ threads' = [threads EXCEPT ![t].pc = "prepare"]
    /\ train_btn' = "disabled"
    /\ UNCHANGED <<db_vars, model, model_file, temp_audio>>

\* training_thread, lines 460-488: the data is read and prepared, and the
\* new instance becomes self.model
TrainPrepare(t) ==
    /\ threads[t].pc = "prepare"
    /\ \E student_data \in
             {get_all_student_embeddings(students, voice_embeddings)} :
          IF Len(student_data) < 2
          THEN ThreadEnds(t) /\ UNCHANGED model
          ELSE \E d \in {TrainingData(student_data)} :
               IF d.raises
               THEN ThreadEnds(t) /\ UNCHANGED model
               ELSE /\ threads' = [threads EXCEPT ![t].pc = "build",
                                                  ![t].data = d]
                    /\ model' = [model EXCEPT
                                    !.desktop = VoiceRecognitionCNN(d.num_classes)]
                    /\ UNCHANGED train_btn
    /\ UNCHANGED <<db_vars, model_file, temp_audio>>

\* training_thread, lines 489-490: self.model.build_model() and
\* compile_model()
TrainBuild(t, fail) ==
    /\ threads[t].pc = "build"
    /\ IF fail
       THEN ThreadEnds(t) /\ UNCHANGED model
       ELSE /\ threads' = [threads EXCEPT ![t].pc = "fit"]
            /\ model' = [model EXCEPT !.desktop = build_model(model.desktop)]
            /\ UNCHANGED train_btn
    /\ UNCHANGED <<db_vars, model_file, temp_audio>>

\* training_thread, line 493: self.model.train_model(X_train, y_train); an
\* instance that is not built has no Keras model to fit
TrainFit(t, fail) ==
    /\ threads[t].pc = "fit"
    /\ IF fail \/ model.desktop.net = "none"
       THEN ThreadEnds(t) /\ UNCHANGED model
       ELSE /\ threads' = [threads EXCEPT ![t].pc = "save"]
            /\ model' = [model EXCEPT
                            !.desktop = fit_model(model.desktop,
                                                  threads[t].data.student_ids)]
            /\ UNCHANGED train_btn
    /\ UNCHANGED <<db_vars, model_file, temp_audio>>

\* training_thread, lines 496-505: self.model.save_model(), then the end
TrainSave(t, fail) ==
    /\ threads[t].pc = "save"
    /\ IF model.desktop.net = "none" THEN UNCHANGED model_file
       ELSE IF fail THEN model_file' \in {model_file, CorruptFile}
       ELSE model_file' = save_model(model.desktop)
    /\ ThreadEnds(t)
    /\ UNCHANGED <<db_vars, model, temp_audio>>

----------------------------------------------------------------------------
(* The web login handlers, one thread per request *)

\* the features api_voice_login of front end op extracts from the file it
\* reads; a file that is not there yields none
ExtractFor(op, file) ==
    IF op = "web_login" THEN ExtractWithFallback(file)
    ELSE preprocess_audio(file, "spectrogram")

\* the acceptance threshold of front end op
AcceptFor(op) ==
    IF op = "web_login" THEN WebConfidenceThreshold ELSE ConfidenceThreshold

\* if os.path.exists(wav_file): os.remove(wav_file)
RemoveWav(wav_file) == temp_audio' = [temp_audio EXCEPT ![wav_file] = NoWav]

\* api_voice_login up to the conversion: the upload is decoded and written to
\* login_<int(time.time())>.wav, sec being the second the request arrives in
WebLoginArrive(t, op, clip, sec) ==
    /\ Len(login_attempts) < MaxLog
    /\ clip.recorded
    /\ threads[t].pc = "idle"
    /\ \A u \in Tids : u < t => threads[u].pc # "idle"
    /\ temp_audio' = [temp_audio EXCEPT ![sec] = clip]
    /\ threads' = [threads EXCEPT ![t] =
                      [IdleThread EXCEPT !.pc = "process", !.op = op,
                                         !.clip = clip, !.wav_file = sec]]
    /\ UNCHANGED <<db_vars, model, model_file, train_btn>>

\* api_voice_login: the features are extracted from the file wav_file names;
\* when there are none the file is removed and the request fails
WebLoginProcess(t) ==
    /\ threads[t].pc = "process"
    /\ \E features \in {ExtractFor(threads[t].op,
                                   temp_audio[threads[t].wav_file])} :
          IF features = None
          THEN /\ RemoveWav(threads[t].wav_file)
               /\ TwoTier(threads[t].op, threads[t].clip, None,
                          AcceptFor(threads[t].op))
               /\ threads' = [threads EXCEPT ![t] = IdleThread]
          ELSE /\ threads' = [threads EXCEPT ![t].pc = "compare",
                                             ![t].features = features]
               /\ UNCHANGED <<login_attempts, last, temp_audio>>
    /\ UNCHANGED <<students, voice_embeddings, model, model_file, train_btn>>

\* api_voice_login: the comparison with all students, the removal of the
\* file, the decision and the log
WebLoginCompare(t) ==
    /\ threads[t].pc = "compare"
    /\ RemoveWav(threads[t].wav_file)
    /\ TwoTier(threads[t].op, threads[t].clip, threads[t].features,
               AcceptFor(threads[t].op))
    /\ threads' = [threads EXCEPT ![t] = IdleThread]
    /\ UNCHANGED <<students, voice_embeddings, model, model_file, train_btn>>

----------------------------------------------------------------------------
(* Specifications *)

Enroll(clips) ==
    \/ \E sid \in StudentIds, clip \in clips \cup {NotRecorded} :
          CliRegisterStudent(sid, clip)
    \/ \E sid \in StudentIds, clip \in clips : DesktopRegisterStudent(sid, clip)
    \/ \E sid \in StudentIds, clip \in clips, d1 \in NoiseDeltas,
          d2 \in NoiseDeltas : WebRegisterStudent(sid, clip, d1, d2)
    \/ \E sid \in StudentIds, clip \in clips : WebFixedRegisterStudent(sid, clip)
    \/ \E sid \in StudentIds : delete_student(sid)

Login(clips) ==
    \/ \E clip \in clips \cup {NotRecorded} : CliVoiceOnlyLogin(clip)
    \/ \E clip \in clips, infer \in Inferences :
          DesktopIdentifyAndLogin(clip, infer)
    \/ \E clip \in clips : WebVoiceLogin(clip)
    \/ \E clip \in clips : WebFixedVoiceLogin(clip)
    \/ \E sid \in StudentIds, clip \in clips \cup {NotRecorded} :
          CliVerifySpecificStudent(sid, clip)
    \/ \E sid \in StudentIds : DemoVerify(sid)

\* the handlers of the four front ends over one database
Next == Enroll(EnrollClips) \/ Login(LoginClips)

Spec == Init /\ [][Next]_vars

\* enrollment, then direct calls of verification and identification
NextEngine ==
    \/ Enroll(EngineClips)
    \/ \E sid \in StudentIds, probe \in Encodings \cup {None},
          threshold \in Thresholds : VerifyCall(sid, probe, threshold)
    \/ \E probe \in Encodings : IdentifyCall(probe)

SpecEngine == Init /\ [][NextEngine]_vars

\* the arrays handed to direct calls of calculate_cosine_similarity
CompareInputs ==
    Encodings \cup {AddNoise(e, d) : e \in Encodings, d \in NoiseDeltas}
              \cup {None}

NextCompare == \E e1 \in CompareInputs, e2 \in CompareInputs : CompareCall(e1, e2)

SpecCompare == Init /\ [][NextCompare]_vars

\* the clips enrolled before training
TrainClips == {ClipX, NoClip}

\* enrollment, deletion and the CLI's training
NextCliTrain ==
    \/ \E sid \in StudentIds, clip \in TrainClips : CliRegisterStudent(sid, clip)
    \/ \E sid \in StudentIds, d1 \in NoiseDeltas, d2 \in NoiseDeltas :
          WebRegisterStudent(sid, ClipMfccOnly, d1, d2)
    \/ \E sid \in StudentIds : delete_student(sid)
    \/ CliStart
    \/ \E fail \in TrainFailures : CliTrainModel(fail)

SpecCliTrain == Init /\ [][NextCliTrain]_vars

\* the desktop application: enrollment, deletion, voice login and training
NextTrain ==
    \/ \E sid \in StudentIds, d \in NoiseDeltas :
          WebRegisterStudent(sid, ClipX, d, d)
    \/ \E sid \in StudentIds : delete_student(sid)
    \/ \E infer \in Inferences : DesktopIdentifyAndLogin(ClipX, infer)
    \/ DesktopStart
    \/ \E t \in Tids : TrainClick(t)
    \/ \E t \in Tids : TrainBegin(t)
    \/ \E t \in Tids : TrainPrepare(t)
    \/ \E t \in Tids, fail \in BOOLEAN : TrainBuild(t, fail)
    \/ \E t \in Tids, fail \in BOOLEAN : TrainFit(t, fail)
    \/ \E t \in Tids, fail \in BOOLEAN : TrainSave(t, fail)

SpecTrain == Init /\ [][NextTrain]_vars

\* the front ends of the web logins
WebLoginOps == {"web_login", "web_fixed_login"}

\* the uploads of concurrent logins
ConcurrentClips == {ClipX, ClipZ}

\* the web server serving login requests in threads
NextConcurrent ==
    \/ \E sid \in StudentIds, d \in NoiseDeltas :
          WebRegisterStudent(sid, ClipX, d, d)
    \/ \E t \in Tids, op \in WebLoginOps, clip \in ConcurrentClips,
          sec \in Seconds : WebLoginArrive(t, op, clip, sec)
    \/ \E t \in Tids : WebLoginProcess(t)
    \/ \E t \in Tids : WebLoginCompare(t)

SpecConcurrent == Init /\ [][NextConcurrent]_vars

\* the amplitudes of the samples offered to the preprocessing functions
Amplitudes == {-2, 0, 1}

\* the audio arrays offered: up to max_length + 1 samples
AudioInputs ==
    UNION {[1..n -> Amplitudes] : n \in 0..(max_length + 1)}

\* the feature matrices offered to pad_sequence: one to max_length + 1 rows
\* of one or two columns
PadInputs ==
    UNION {[1..r -> [1..c -> {0, 1}]] :
              r \in 1..(max_length + 1), c \in 1..2}

\* the thresholds a caller of remove_silence passes
SilenceThresholds == {0, SilenceThreshold}

\* the files offered to load_audio and preprocess_audio
AudioFiles ==
    {MissingFile, ZeroByteFile, UndecodableFile, ZeroSampleFile}
    \cup {AudioFile(TRUE, TRUE, TRUE, smp, mr, sr) :
             smp \in AudioInputs \ {<<>>}, mr \in BOOLEAN, sr \in BOOLEAN}

\* direct calls of the functions of AudioPreprocessor
NextPreprocess ==
    \/ \E features \in PadInputs : PadCall(features)
    \/ \E audio \in AudioInputs, threshold \in SilenceThresholds :
          SilenceCall(audio, threshold)
    \/ \E file \in AudioFiles : LoadCall(file)
    \/ \E file \in AudioFiles, feature_type \in FeatureTypes :
          PreprocessCall(file, feature_type)

SpecPreprocess == Init /\ [][NextPreprocess]_vars

\* the uploads sent to web_app: audio of which every mode, only the later
\* modes or no mode extracts an encoding, and bytes that are not audio
WebUploads ==
    {Upload(TRUE, ClipX), Upload(TRUE, ClipMfccOnly),
     Upload(TRUE, ClipSimpleOnly), Upload(TRUE, NoClip), UndecodableUpload}

\* the uploads sent to web_app_fixed
WebFixedUploads == {Upload(TRUE, ClipX), UndecodableUpload}

\* the two web servers from the uploaded bytes on
NextUpload ==
    \/ \E sid \in StudentIds, upload \in WebUploads,
          fail \in ConversionFailures, d \in NoiseDeltas :
          WebRegisterUpload(sid, upload, fail, d)
    \/ \E sid \in StudentIds, upload \in WebFixedUploads,
          rename_fails \in BOOLEAN :
          WebFixedRegisterUpload(sid, upload, rename_fails)
    \/ \E upload \in WebUploads, fail \in ConversionFailures :
          WebLoginUpload(upload, fail)
    \/ \E upload \in WebFixedUploads, rename_fails \in BOOLEAN :
          WebFixedLoginUpload(upload, rename_fails)
    \/ \E sid \in StudentIds : delete_student(sid)

SpecUpload == Init /\ [][NextUpload]_vars

\* the encodings stored by direct calls
StoreEncodings == {SpecX, MfccM}

\* direct calls of register_student, store_voice_embedding, delete_student
NextStore ==
    \/ \E sid \in StudentIds : RegisterCall(sid)
    \/ \E sid \in StudentIds, embedding \in StoreEncodings :
          StoreCall(sid, embedding)
    \/ \E sid \in StudentIds : delete_student(sid)

SpecStore == Init /\ [][NextStore]_vars

----------------------------------------------------------------------------
(* Properties *)

\* the operations that start a verification attempt
OpenSetOps == {"cli_voice_only", "desktop_identify", "web_login",
               "web_fixed_login"}

ClosedSetOps == {"cli_verify", "demo_verify"}

\* the rows stored for sid, oldest first
StoredRows(sid) == Filter(voice_embeddings, sid)

\* the cosine of two encodings, as a score
Cos(a, b) == calculate_cosine_similarity(a, b).val

\* the encoding the last attempt's recording yields, None if none
Probe ==
    IF last.op = "web_login" THEN ExtractWithFallback(last.clip)
    ELSE IF last.op = "demo_verify" THEN last.features
    ELSE preprocess_audio(last.clip, "spectrogram")

\* the scores of probe against every encoding stored for a registered student
EnrolledScores(probe) ==
    {Cos(probe, voice_embeddings[i].embedding) :
        i \in {j \in 1..Len(voice_embeddings) :
                  StudentExists(students, voice_embeddings[j].student_id)}}

\* the score of the top-scoring identity; 0.0 when nothing scores above it
TopScore(probe) ==
    CHOOSE s \in EnrolledScores(probe) \cup {Zero} :
        \A t \in EnrolledScores(probe) \cup {Zero} : ScoreGeq(s, t)

\* the row log_login_attempt wrote last
NewestAttempt == login_attempts[Len(login_attempts)]

\* C1: in the voice-only login of the CLI and of the desktop app, an attempt
\* whose recording yields an encoding is accepted (login succeeds) iff the
\* top score s is >= 0.75, is a possible match (identity reported, access not
\* granted) iff 0.5 <= s < 0.75, and is rejected iff s < 0.5 or nobody is
\* enrolled.
C1_OpenSetTiers ==
    (last.op \in {"cli_voice_only", "desktop_identify"} /\ Probe # None) =>
        LET s == TopScore(Probe)
        IN  /\ (last.success /\ last.outcome = "Accept")
                   <=> ScoreGeq(s, ConfidenceThreshold)
            /\ (~last.success /\ last.outcome = "PossibleMatch")
                   <=> (ScoreGeq(s, PossibleThreshold)
                        /\ ScoreLt(s, ConfidenceThreshold))
            /\ (~last.success /\ last.outcome \notin {"Accept", "PossibleMatch"})
                   <=> (ScoreLt(s, PossibleThreshold) \/ students = <<>>)

\* C2: closed-set verification of a claimed identity succeeds exactly when
\* one of the encodings stored for that identity scores >= 0.8 against the
\* probe; _verify_specific_student returns that flag and fails on every
\* earlier return.
C2_ClosedSetThreshold ==
    last.op \in ClosedSetOps =>
        IF last.logged
        THEN /\ last.success <=>
                    \E i \in 1..Len(StoredRows(last.student_id)) :
                        ScoreGeq(Cos(last.features,
                                     StoredRows(last.student_id)[i].embedding),
                                 Score(4, 25))
             /\ NewestAttempt.student_id = last.student_id
             /\ NewestAttempt.success = last.success
        ELSE ~last.success

\* C2 witness: a CLI verification whose best score is exactly 0.8 is accepted
C2_Witness ==
    /\ last.op = "cli_verify"
    /\ last.logged
    /\ last.success
    /\ ScoreEq(last.similarity, Score(4, 25))

\* C3: for an identity with stored encodings, the score verify_student_voice
\* returns is the maximum of the cosine of the probe with every encoding
\* stored for the identity: it is one of those cosines and no other is larger.
C3_BestOfStored ==
    (last.op = "verify" /\ last.features # None
        /\ StoredRows(last.student_id) # <<>>) =>
        LET rows == StoredRows(last.student_id)
        IN  /\ \E i \in 1..Len(rows) :
                  ScoreEq(last.similarity, Cos(last.features, rows[i].embedding))
            /\ \A i \in 1..Len(rows) :
                  ScoreGeq(last.similarity, Cos(last.features, rows[i].embedding))

\* C3 witness: a verification against three stored encodings whose score is
\* above the score of the most recent one
C3_Witness ==
    /\ last.op = "verify"
    /\ last.features # None
    /\ Len(StoredRows(last.student_id)) = 3
    /\ LET rows == StoredRows(last.student_id)
       IN  ScoreGt(last.similarity,
                   Cos(last.features, rows[Len(rows)].embedding))

\* C4: an open-set login (CLI, desktop, web) whose top score is below 0.75
\* does not return success and is not logged as a successful login.
C4_OpenSetGrantsOnlyAtConfidence ==
    (last.op \in OpenSetOps /\ Probe # None
        /\ ScoreLt(TopScore(Probe), ConfidenceThreshold)) =>
        /\ ~last.success
        /\ last.logged => ~NewestAttempt.success

\* C5: no verification attempt that got as far as a probe encoding returns
\* without log_login_attempt having recorded it.
C5_EveryAttemptLogged ==
    (last.op \in OpenSetOps \cup ClosedSetOps /\ last.outcome # "NotFound"
        /\ Probe # None) => last.logged

\* C6: an open-set attempt whose probe matches no enrolled identity (top
\* score below 0.5, or nobody enrolled) is logged under "UNKNOWN" with
\* success false and the best score observed.
C6_UnmatchedLoggedAsUnknown ==
    (last.op \in OpenSetOps /\ Probe # None
        /\ ScoreLt(TopScore(Probe), PossibleThreshold)) =>
        /\ last.logged
        /\ NewestAttempt.student_id = UNKNOWN
        /\ ~NewestAttempt.success
        /\ ScoreEq(NewestAttempt.confidence_score, TopScore(Probe))

\* C7: every score verify_student_voice returns, a cosine computed by
\* calculate_cosine_similarity, lies in [0, 1].
C7_ScoreInUnitInterval ==
    last.op = "verify" =>
        ScoreGeq(last.similarity, Zero) /\ ScoreLeq(last.similarity, One)

\* two encodings the comparison treats as not comparable
Degenerate(a, b) ==
    \/ Len(Flatten(a)) # Len(Flatten(b))
    \/ NormSq(Flatten(a)) = 0
    \/ NormSq(Flatten(b)) = 0

\* C8: calculate_cosine_similarity never raises, and on two encodings of
\* different flattened shape or with one of zero norm it returns exactly 0.0,
\* a score below every acceptance threshold of the program.
C8_CosineTotalAndDegenerateZero ==
    last.op = "compare" =>
        /\ ~last.raised
        /\ (last.features = None \/ last.other = None
               \/ Degenerate(last.features, last.other)) =>
              /\ last.similarity = Zero
              /\ \A t \in {DefaultThreshold, ConfidenceThreshold,
                           WebConfidenceThreshold, PossibleThreshold} :
                    ScoreLt(last.similarity, t)

\* C8 witness: an all-zero encoding compared with one of the same shape and
\* non-zero norm gave 0.0
C8_Witness ==
    /\ last.op = "compare"
    /\ last.features = SpecSilent
    /\ last.other # None
    /\ Len(Flatten(last.other)) = Len(Flatten(SpecSilent))
    /\ NormSq(Flatten(last.other)) # 0
    /\ last.similarity = Zero
    /\ ~last.raised

\* C9: verification of an identity with a probe equal to one of its stored
\* encodings, of non-zero norm, is accepted at the default threshold with
\* score 1.0, whatever else is stored.
C9_SelfSimilarity ==
    (last.op = "verify" /\ last.threshold = DefaultThreshold
        /\ last.features # None /\ NormSq(Flatten(last.features)) # 0
        /\ \E i \in 1..Len(StoredRows(last.student_id)) :
              StoredRows(last.student_id)[i].embedding = last.features) =>
        last.success /\ ScoreEq(last.similarity, One)

\* C9 witness: such a verification, the identity holding other encodings
\* than the probe and another identity being enrolled too
C9_Witness ==
    /\ last.op = "verify"
    /\ last.threshold = DefaultThreshold
    /\ last.features # None
    /\ NormSq(Flatten(last.features)) # 0
    /\ \E i, j \in 1..Len(StoredRows(last.student_id)) :
          /\ StoredRows(last.student_id)[i].embedding = last.features
          /\ StoredRows(last.student_id)[j].embedding # last.features
    /\ \E i \in 1..Len(voice_embeddings) :
          voice_embeddings[i].student_id # last.student_id
    /\ last.success

\* C10: verify_student_voice on an identity with no stored encoding returns
\* (False, 0.0) for every probe and every threshold, and the identification
\* loop never selects an identity with no stored encoding.
C10_NoEncodingNotEligible ==
    /\ (last.op = "verify" /\ StoredRows(last.student_id) = <<>>) =>
          ~last.success /\ last.similarity = Zero
    /\ (last.op = "identify" /\ last.best_student # NoStudent) =>
          StoredRows(last.best_student) # <<>>

\* C10 witness: a registered student without encodings verified with a
\* probe of non-zero norm at threshold 0.0
C10_Witness ==
    /\ last.op = "verify"
    /\ StudentExists(students, last.student_id)
    /\ StoredRows(last.student_id) = <<>>
    /\ last.features # None
    /\ NormSq(Flatten(last.features)) # 0
    /\ last.threshold = Zero
    /\ ~last.success

RegisterOps == {"cli_register", "desktop_register", "web_register",
                "web_fixed_register"}

\* C11: a registration attempt that fails leaves the students and the
\* voice_embeddings tables exactly as they were before the attempt.
C11_FailedRegistrationLeavesStore ==
    [][(last'.op \in RegisterOps /\ ~last'.success) =>
          (students' = students /\ voice_embeddings' = voice_embeddings)]_vars

\* (rows, columns) of an encoding
Shape(e) == <<Len(e), Len(e[1])>>

\* C20: all stored encodings have one shape, whichever feature type or
\* fallback produced them.
C20_EncodingsSameShape ==
    \A i, j \in 1..Len(voice_embeddings) :
        Shape(voice_embeddings[i].embedding) = Shape(voice_embeddings[j].embedding)

\* the identities that have at least one stored encoding
Trainable ==
    {sid \in StudentIds :
        StudentExists(students, sid) /\ StoredRows(sid) # <<>>}

\* C12: a training run that fails while a trained model is the CLI's current
\* model leaves that model current and the saved model file as it was.
C12_FailedTrainingKeepsModel ==
    [][(last'.op = "cli_train" /\ ~last'.success /\ model.cli.net = "trained") =>
          (model'.cli = model.cli /\ model_file' = model_file)]_vars

\* C18: a training request with fewer than two identities holding stored
\* encodings fails as insufficient, and leaves the current model and the
\* model file untouched; with two or more the run goes on to prepare data.
C18_InsufficientTrainingData ==
    [][last'.op = "cli_train" =>
          IF Cardinality(Trainable) < 2
          THEN /\ ~last'.success
               /\ last'.outcome = "Insufficient"
               /\ model' = model
               /\ model_file' = model_file
          ELSE last'.outcome # "Insufficient"]_vars

\* C18 witness: training refused with two students registered, one of them
\* without a stored encoding
C18_Witness ==
    /\ last.op = "cli_train"
    /\ last.outcome = "Insufficient"
    /\ Len(students) = 2
    /\ Cardinality(Trainable) = 1

\* a training thread has been started and has not ended
Running(t) == threads[t].pc # "idle"

\* the test of app.identify_and_login (line 328) and of update_model_info
\* (line 528) for using the classifier: self.model and self.model.model
Usable(m) == m.exists /\ m.net # "none"

\* C13: while a training run is in progress, the trained model that
\* inference uses stays a trained model: no step of the run puts an unbuilt
\* or unfitted instance in its place.
C13_TrainingKeepsInferenceModelTrained ==
    [][((\E t \in Tids : Running(t)) /\ model.desktop.net = "trained") =>
          model'.desktop.net = "trained"]_vars

\* C14: at most one training run is past the start of its thread at any
\* time.
C14_OneTrainingRun ==
    Cardinality({t \in Tids :
                    threads[t].pc \in {"prepare", "build", "fit", "save"}}) <= 1

\* C15: a trained classifier that inference would use was fitted for exactly
\* the identities enrolled with encodings now: after a registration or a
\* deletion it is not usable until a run over the new identity set completes.
C15_ClassifierMatchesIdentitySet ==
    (Usable(model.desktop) /\ model.desktop.net = "trained") =>
        {model.desktop.classes[k] : k \in 1..Len(model.desktop.classes)}
            = Trainable

\* what self.model may be when a login is attempted
ModelCases ==
    {NoModel, VoiceRecognitionCNN(2), build_model(VoiceRecognitionCNN(2)),
     fit_model(build_model(VoiceRecognitionCNN(2)), <<"S1", "S2">>),
     fit_model(build_model(VoiceRecognitionCNN(2)), <<"S2", "S1">>)}

Labelled(d, k) == {i \in 1..Len(d.y_train) : d.y_train[i] = k - 1}

\* d labels the encodings stored now: one class per identity with encodings
LabelsByIdentity(d) ==
    /\ Len(d.student_ids) = Cardinality(Trainable)
    /\ {d.student_ids[k] : k \in 1..Len(d.student_ids)} = Trainable
    /\ d.num_classes = Cardinality(Trainable)
    /\ Len(d.X_train) = Len(d.y_train)
    /\ {d.y_train[i] : i \in 1..Len(d.y_train)} = 0..(d.num_classes - 1)
    /\ \A k \in 1..Len(d.student_ids) :
          /\ Cardinality(Labelled(d, k)) = Len(StoredRows(d.student_ids[k]))
          /\ \A i \in Labelled(d, k) :
                \E j \in 1..Len(StoredRows(d.student_ids[k])) :
                    StoredRows(d.student_ids[k])[j].embedding = d.X_train[i]

\* C19: the training data a run prepares gives every identity with stored
\* encodings one class index, the indices are distinct and cover 0..n-1,
\* every sample carries the index of its identity, and the new classifier
\* has n classes.
C19_OneClassPerIdentity ==
    [][\A t \in Tids :
          (threads'[t].data # threads[t].data /\ threads'[t].data # NoData) =>
              /\ LabelsByIdentity(threads'[t].data)
              /\ model'.desktop.num_classes = Cardinality(Trainable)]_vars

C19_Witness ==
    \E t \in Tids :
        /\ threads[t].pc = "build"
        /\ threads[t].data.num_classes = 2
        /\ Len(threads[t].data.y_train) = 6
\* C16: a web login that reaches its decision decides on the features of its own upload, whatever
\* other logins run at the same time: the decision and the score are those
\* of its own probe against the enrolled encodings.
C16_AttemptUsesOwnProbe ==
    (last.op \in WebLoginOps /\ last.logged) =>
        last.features = ExtractFor(last.op, last.clip)
\* C22: pad_sequence returns max_length rows of the input's column count:
\* the first max_length rows of a longer input, otherwise all input rows in
\* order followed by all-zero rows.
C22_PadSequenceShape ==
    last.op = "pad_sequence" =>
        /\ Len(last.result) = max_length
        /\ \A i \in 1..Len(last.result) :
              Len(last.result[i]) = Len(last.input[1])
        /\ \A i \in 1..max_length :
              IF i <= Len(last.input) THEN last.result[i] = last.input[i]
              ELSE \A j \in 1..Len(last.result[i]) : last.result[i][j] = 0

C22_Witness ==
    /\ last.op = "pad_sequence"
    /\ Len(last.input) > max_length
    /\ last.input[Len(last.input)] # last.input[max_length]

\* the positions of the samples of audio louder than t
Loud(audio, t) == {i \in 1..Len(audio) : Abs(audio[i]) > t}

\* C23: remove_silence returns, in their order, exactly the samples whose
\* absolute amplitude is greater than the threshold, and the input itself
\* when there is none; a non-empty input never gives an empty output.
C23_RemoveSilenceKeepsLoud ==
    last.op = "remove_silence" =>
        /\ IF Loud(last.input, last.arg) = {}
           THEN last.result = last.input
           ELSE /\ Len(last.result) = Cardinality(Loud(last.input, last.arg))
                /\ \A i \in Loud(last.input, last.arg) :
                      last.result[Cardinality({j \in Loud(last.input, last.arg) :
                                                  j <= i})]
                          = last.input[i]
        /\ (last.input # <<>> => last.result # <<>>)

C23_Witness ==
    /\ last.op = "remove_silence"
    /\ last.input # <<>>
    /\ Loud(last.input, last.arg) = {}

\* no encoding can be extracted from file with feature_type
CannotExtract(file, feature_type) ==
    \/ ~file.exists \/ ~file.bytes \/ ~file.decodable \/ file.samples = <<>>
    \/ feature_type \notin {"mfcc", "spectrogram"}
    \/ feature_type = "mfcc" /\ file.mfcc_raises
    \/ feature_type = "spectrogram" /\ file.spec_raises

\* C24: preprocess_audio never raises to its caller; whenever no encoding
\* can be extracted, whatever the cause, it returns None, and otherwise it
\* returns an encoding.
C24_PreprocessReturnsNone ==
    last.op = "preprocess_audio" =>
        /\ ~last.raised
        /\ CannotExtract(last.input, last.arg) <=> last.result = None

C24_Witness ==
    /\ last.op = "preprocess_audio"
    /\ last.arg = "mfcc"
    /\ last.input.samples # <<>>
    /\ last.input.mfcc_raises
    /\ last.result = None

\* what the function of the last call gives for file
OutcomeFor(file) ==
    IF last.op = "load_audio" THEN load_audio(file)
    ELSE preprocess_audio_file(file, last.arg).val

\* C26: an input of zero samples and an input that is missing or cannot be
\* decoded fail with outcomes the caller can tell apart.
C26_EmptyAndLoadErrorDistinct ==
    (last.op \in {"load_audio", "preprocess_audio"}
     /\ last.input = ZeroSampleFile) =>
        /\ last.result # OutcomeFor(UndecodableFile)
        /\ last.result # OutcomeFor(MissingFile)
\* the feature type of an encoding, told by its number of columns (n_mfcc
\* coefficients against n_mels bands; the manual estimate has the columns
\* of a spectrogram)
FeatureTypeOf(e) ==
    IF Len(e[1]) = Len(MfccM[1]) THEN "mfcc" ELSE "spectrogram"

\* C21: a web login that compares its probe with the enrolled encodings
\* compares like with like: every encoding it is scored against has the
\* feature type of the probe.
C21_LikeForLike ==
    (last.op \in WebLoginOps /\ last.logged) =>
        \A i \in 1..Len(voice_embeddings) :
            StudentExists(students, voice_embeddings[i].student_id) =>
                FeatureTypeOf(voice_embeddings[i].embedding)
                    = FeatureTypeOf(last.features)

\* C25: the web handlers of web_app use the spectrogram encoding when there
\* is one, else the mfcc encoding when there is one, else the manual
\* estimate, and fail for want of features only when all three are absent.
C25_FallbackChain ==
    (last.op \in {"web_register", "web_login"}
     /\ last.outcome # "ConversionFailed") =>
        /\ last.clip.spec # None => last.features = last.clip.spec
        /\ (last.clip.spec = None /\ last.clip.mfcc # None) =>
              last.features = last.clip.mfcc
        /\ (last.clip.spec = None /\ last.clip.mfcc = None) =>
              last.features = last.clip.simple
        /\ last.outcome = "NoFeatures" <=>
              (/\ last.clip.spec = None
               /\ last.clip.mfcc = None
               /\ last.clip.simple = None)

C25_Witness ==
    /\ last.op = "web_login"
    /\ last.clip.spec = None
    /\ last.clip.mfcc = None
    /\ last.features = last.clip.simple
    /\ last.features # None
    /\ last.logged

\* the signals convert_audio_to_wav puts in the place of bytes it cannot
\* decode
SubstituteClips == {RawPcmClip, ToneClip}

\* C30: a web request whose upload cannot be decoded reports failure, and
\* no signal put in the place of the upload is enrolled or compared.
C30_UndecodableUploadFails ==
    (last.op \in RegisterOps \cup WebLoginOps /\ last.clip \in SubstituteClips)
        => (~last.success /\ ~last.logged /\ last.features = None)
\* the best-match score of student sid for the probe of the last attempt
ScoreOf(sid) ==
    verify_student_voice(voice_embeddings, sid, last.features,
                         DefaultThreshold).similarity

\* the positions of list_all_students, the order the loop meets them in
Met == 1..Len(list_all_students(students))

\* C27: the identity an open-set attempt selects is an active enrolled
\* identity whose best-match score is maximal, the first one met on a tie;
\* when no identity scores above 0, none is selected and the attempt does
\* not succeed.
C27_SelectsFirstMaximal ==
    last.op \in OpenSetOps =>
        /\ last.best_student # NoStudent =>
              \E k \in Met :
                 /\ list_all_students(students)[k].student_id = last.best_student
                 /\ list_all_students(students)[k].is_active
                 /\ last.similarity = ScoreOf(last.best_student)
                 /\ ScoreGt(last.similarity, Zero)
                 /\ \A j \in Met :
                       LET other == list_all_students(students)[j].student_id
                       IN  /\ ScoreLeq(ScoreOf(other), last.similarity)
                           /\ j < k => ScoreLt(ScoreOf(other), last.similarity)
        /\ (\A j \in Met :
               ~ScoreGt(ScoreOf(list_all_students(students)[j].student_id),
                        Zero)) =>
              (last.best_student = NoStudent /\ ~last.success)

C27_Witness ==
    /\ last.op = "web_login"
    /\ last.logged
    /\ Len(students) = 2
    /\ last.best_student = list_all_students(students)[1].student_id
    /\ \A j \in Met :
          ScoreOf(list_all_students(students)[j].student_id) = last.similarity

\* the rows of seq that do not belong to student sid
NotOf(seq, sid) == SelectSeq(seq, LAMBDA r : r.student_id # sid)

\* C28: delete_student(id) removes the student row, the encodings and the
\* login attempts of id and leaves every other row of the three tables as
\* it was; afterwards verification of id gives no match with score 0.0 and
\* id can be registered again.
C28_DeleteStudentFrame ==
    [][last'.op = "delete" =>
          /\ ~StudentExists(students', last'.student_id)
          /\ students' = NotOf(students, last'.student_id)
          /\ voice_embeddings' = NotOf(voice_embeddings, last'.student_id)
          /\ login_attempts' = NotOf(login_attempts, last'.student_id)
          /\ \A probe \in Encodings, threshold \in Thresholds :
                verify_student_voice(voice_embeddings', last'.student_id,
                                     probe, threshold)
                    = [is_match |-> FALSE, similarity |-> Zero]
          /\ register_student(students', last'.student_id).ok]_vars

C28_Witness ==
    /\ last.op = "delete"
    /\ Len(students) = 1
    /\ voice_embeddings # <<>>
    /\ login_attempts # <<>>

\* C29: there is at most one student row per student id; registering an id
\* that is registered fails and changes neither table; storing an encoding
\* for an id that is not registered raises and stores nothing.
C29_OneRowPerStudent ==
    [][/\ \A i, j \in 1..Len(students') :
             students'[i].student_id = students'[j].student_id => i = j
       /\ (last'.op = "register" /\ StudentExists(students, last'.student_id)) =>
             /\ ~last'.success
             /\ students' = students
             /\ voice_embeddings' = voice_embeddings
       /\ (last'.op = "store" /\ ~StudentExists(students, last'.student_id)) =>
             /\ last'.raised
             /\ voice_embeddings' = voice_embeddings]_vars

C29_Witness ==
    /\ last.op = "register"
    /\ last.outcome = "Exists"
    /\ Len(students) = 2
    /\ Len(voice_embeddings) = 2
====
